---- MODULE Spec2Model ----
(***************************************************************************)
(* MAX72: the Arduino driver class for the MAX7219/MAX7221 LED controller  *)
(* (MAX72.h, MAX72.cpp).  The object holds the number of digits to scan    *)
(* and an 8-byte display cache; every method pushes register writes to the *)
(* chip over SPI, each framed by the chip-select pin.                      *)
(*                                                                         *)
(* One action per method.  An action runs the whole method and records the *)
(* pin and bus events it produced, in order, in `trace`; the register      *)
(* writes the chip sees are decoded from those events (Writes), and `regs` *)
(* holds the value last latched into each register.                        *)
(***************************************************************************)
EXTENDS Integers, Sequences, FiniteSets, TLC

VARIABLES
  pc,            \* "new" before the constructor has run, "ready" after
  numDigits,     \* MAX72::_numDigits
  displayCache,  \* MAX72::_displayCache[8], indexed 0..7
  chipSelect,    \* level of the pin _chipSelect
  pinMode,       \* mode of the pin _chipSelect
  spi,           \* configuration of the SPI peripheral
  regs,          \* chip side: value last latched into each register
  trace,         \* pin and bus events of the last method run, in order
  lastOp,        \* the last method run and its arguments
  prevCache,     \* displayCache when the last method was called
  prevRegs,      \* regs when the last method was called
  inRange,       \* every call so far had digit < numDigits and segment < 8
  pair,          \* whether the last two calls were one of the pairs below
  pairCache,     \* then displayCache when the first of the two was called
  opsDone        \* number of public methods called since construction

vars == <<pc, numDigits, displayCache, chipSelect, pinMode, spi, regs, trace,
          lastOp, prevCache, prevRegs, inRange, pair, pairCache, opsDone>>

----------------------------------------------------------------------------
(* Bounds of the model *)

\* public methods called after construction
MaxOps == 3

\* digit counts the constructor is called with
NumDigitsArgs == 1..8

\* uint8_t values passed as segment patterns
ByteArgs == {1, 255}

\* uint8_t values passed as digit (column) masks
MaskArgs == {0, 165, 255}

\* uint8_t values passed as digit index: 0 and 7 index the cache, 11 does not
DigitArgs == {0, 7, 11}

\* uint8_t values passed as segment index
SegmentArgs == {0, 7, 8}

\* uint8_t values passed as intensity
IntensityArgs == {0, 15, 16}

\* contents of memory that was never written, or lies outside the object
UndefBytes == {0, 165}

----------------------------------------------------------------------------
(* MAX72.h, MAX72.cpp: register and constant definitions *)

\* DIGITREGISTER numbering the digit registers from 0, like the digits
DIGITREGISTER_ZeroBased(x) == x

DIGITREGISTER(x) == x + 1
DECODEMODE == 9
INTENSITY == 10
SCANLIMIT == 11
SHUTDOWN == 12
DISPLAYTEST == 15

HIGH == 1
LOW == 0
OUTPUT == 1
INPUT == 0
CLOCK_DIVIDER == 2

\* number of entries of _displayCache
CacheSize == 8

\* conversion of an int to uint8_t
uint8(x) == x % 256

\* x & y on two's-complement integers of any width
RECURSIVE BitAnd(_, _)
BitAnd(x, y) ==
  IF x = 0 \/ y = 0 THEN 0
  ELSE IF x = -1 THEN y
  ELSE IF y = -1 THEN x
  ELSE (x % 2) * (y % 2) + 2 * BitAnd(x \div 2, y \div 2)

\* ~x on two's-complement integers
BitNot(x) == -x - 1

\* x | y, by De Morgan on the two above
BitOr(x, y) == BitNot(BitAnd(BitNot(x), BitNot(y)))

\* x << s on an int, s below the width of int
ShiftLeft(x, s) == x * 2^s

----------------------------------------------------------------------------
(* Events on the wire *)

CsEvent(level) == <<"cs", level>>
SpiEvent(word) == <<"spi", word>>

\* writeRegister without the closing digitalWrite(_chipSelect, HIGH)
writeRegister_NoRelease(chipRegister, chipValue) ==
  << CsEvent(LOW), SpiEvent(chipRegister), SpiEvent(chipValue) >>

\* MAX72::writeRegister: select, address word, value word, release
writeRegister(chipRegister, chipValue) ==
  << CsEvent(LOW), SpiEvent(chipRegister), SpiEvent(chipValue), CsEvent(HIGH) >>

\* Level of the chip-select pin after the first k events of tr, from
\* level `level`: the level of the last digitalWrite among them
RECURSIVE PinAfterFirst(_, _, _)
PinAfterFirst(level, tr, k) ==
  IF k = 0 THEN level
  ELSE IF tr[k][1] = "cs" THEN tr[k][2]
  ELSE PinAfterFirst(level, tr, k - 1)

PinAfter(level, tr) == PinAfterFirst(level, tr, Len(tr))

\* Level of the chip-select pin just before event k of tr
PinBefore(level, tr, k) == PinAfterFirst(level, tr, k - 1)

\* The register writes the chip latches from the events tr, from the k-th
\* on: words are clocked in while chip-select is low, and its rising edge
\* latches the last two of them as (address, value).  cnt counts the words
\* of the current low period, a and v are the last two.
RECURSIVE WritesFrom(_, _, _, _, _, _, _)
WritesFrom(tr, k, level, cnt, a, v, acc) ==
  IF k > Len(tr) THEN acc
  ELSE IF tr[k][1] = "spi"
  THEN IF level = LOW
       THEN WritesFrom(tr, k + 1, level, cnt + 1, v, tr[k][2], acc)
       ELSE WritesFrom(tr, k + 1, level, cnt, a, v, acc)
  ELSE IF tr[k][2] = LOW
  THEN WritesFrom(tr, k + 1, LOW, IF level = LOW THEN cnt ELSE 0, a, v, acc)
  ELSE WritesFrom(tr, k + 1, HIGH, 0, a, v,
                  IF level = LOW /\ cnt >= 2 THEN Append(acc, <<a, v>>) ELSE acc)

Writes(level, tr) == WritesFrom(tr, 1, level, 0, 0, 0, <<>>)

\* Registers of the chip after the writes ws from the k-th on: each holds
\* the value of the last write addressed to it
RECURSIVE LatchFrom(_, _, _)
LatchFrom(r, ws, k) ==
  IF k > Len(ws) THEN r
  ELSE LatchFrom(IF ws[k][1] \in DOMAIN r
                 THEN [r EXCEPT ![ws[k][1]] = ws[k][2]] ELSE r, ws, k + 1)

Latch(r, ws) == LatchFrom(r, ws, 1)

----------------------------------------------------------------------------
(* The methods of MAX72.cpp.  Each takes the object's fields it reads *)
(* (n = _numDigits, c = _displayCache) and yields the cache it leaves *)
(* and the events it emits.                                           *)

Result(c, tr) == [cache |-> c, trace |-> tr]

\* MAX72::dispClear, the loop from index i on
RECURSIVE dispClearFrom(_, _, _, _)
dispClearFrom(i, n, c, tr) ==
  IF i < n
  THEN LET c1 == [c EXCEPT ![i] = 0]
       IN dispClearFrom(i + 1, n, c1,
                        tr \o writeRegister(uint8(DIGITREGISTER(i)), c1[i]))
  ELSE Result(c, tr)

\* dispClear running over the whole cache instead of the digits scanned
dispClear_WholeCache(n, c) == dispClearFrom(0, CacheSize, c, <<>>)

dispClear(n, c) == dispClearFrom(0, n, c, <<>>)

\* dispAll writing a digit's register only when its cache entry changes
RECURSIVE dispAllFrom_SkipsUnchanged(_, _, _, _)
dispAllFrom_SkipsUnchanged(i, n, c, tr) ==
  IF i < n
  THEN LET c1 == [c EXCEPT ![i] = 255]
       IN dispAllFrom_SkipsUnchanged(i + 1, n, c1,
            IF c[i] = 255 THEN tr
            ELSE tr \o writeRegister(uint8(DIGITREGISTER(i)), c1[i]))
  ELSE Result(c, tr)

\* MAX72::dispAll
RECURSIVE dispAllFrom(_, _, _, _)
dispAllFrom(i, n, c, tr) ==
  IF i < n
  THEN LET c1 == [c EXCEPT ![i] = 255]
       IN dispAllFrom(i + 1, n, c1,
                      tr \o writeRegister(uint8(DIGITREGISTER(i)), c1[i]))
  ELSE Result(c, tr)

dispAll(n, c) == dispAllFrom(0, n, c, <<>>)

\* MAX72::dispRefresh
RECURSIVE dispRefreshFrom(_, _, _, _)
dispRefreshFrom(i, n, c, tr) ==
  IF i < n
  THEN dispRefreshFrom(i + 1, n, c,
                       tr \o writeRegister(uint8(DIGITREGISTER(i)), c[i]))
  ELSE Result(c, tr)

\* dispRefresh with the loop bound off by one (i < _numDigits - 1)
dispRefresh_StopsEarly(n, c) == dispRefreshFrom(0, n - 1, c, <<>>)

dispRefresh(n, c) == dispRefreshFrom(0, n, c, <<>>)

\* setIntensity clamping an out-of-range level to 15 instead of ignoring it
setIntensity_Clamps(n, c, intensity) ==
  Result(c, writeRegister(INTENSITY, IF intensity <= 15 THEN intensity ELSE 15))

\* setIntensity with the range check off by one (intensity <= 0x10)
setIntensity_AcceptsSixteen(n, c, intensity) ==
  IF intensity <= 16
  THEN Result(c, writeRegister(INTENSITY, intensity))
  ELSE Result(c, <<>>)

\* MAX72::setIntensity
setIntensity(n, c, intensity) ==
  IF intensity <= 15
  THEN Result(c, writeRegister(INTENSITY, intensity))
  ELSE Result(c, <<>>)

\* The guard as a range check of digit against _numDigits
DigitGuard_RangeCheck(digit, n) == 0 <= digit /\ digit < n

\* The guard `0 <= digit < _numDigits` of setDigit and setPixel, as C++
\* parses it: (0 <= digit) < _numDigits, the comparison's bool promoted to int
DigitGuard(digit, n) == (IF 0 <= digit THEN 1 ELSE 0) < n

\* Whether setDigit and setPixel stay inside _displayCache[8]: they index it
\* with digit once the guard has passed
Defined(digit, n) == DigitGuard(digit, n) => digit < CacheSize

\* MAX72::setDigit.  A digit of 8 or more indexes past _displayCache:
\* the store leaves the cache alone and the byte read back is u.
setDigit(n, c, digit, segments, u) ==
  IF DigitGuard(digit, n)
  THEN IF digit < CacheSize
       THEN LET c1 == [c EXCEPT ![digit] = segments]
            IN Result(c1, writeRegister(uint8(DIGITREGISTER(digit)), c1[digit]))
       ELSE Result(c, writeRegister(uint8(DIGITREGISTER(digit)), u))
  ELSE Result(c, <<>>)

\* setMatrix without `colmask <<= 1`
RECURSIVE setMatrixFrom_NoShift(_, _, _, _, _, _, _)
setMatrixFrom_NoShift(i, colmask, n, c, digits, segments, tr) ==
  IF i < n
  THEN LET c1 == IF BitAnd(colmask, digits) # 0
                 THEN [c EXCEPT ![i] = segments]
                 ELSE [c EXCEPT ![i] = 0]
       IN setMatrixFrom_NoShift(i + 1, colmask, n, c1, digits, segments,
                                tr \o writeRegister(uint8(DIGITREGISTER(i)), c1[i]))
  ELSE Result(c, tr)

\* MAX72::setMatrix; colmask is a uint8_t
RECURSIVE setMatrixFrom(_, _, _, _, _, _, _)
setMatrixFrom(i, colmask, n, c, digits, segments, tr) ==
  IF i < n
  THEN LET c1 == IF BitAnd(colmask, digits) # 0
                 THEN [c EXCEPT ![i] = segments]
                 ELSE [c EXCEPT ![i] = 0]
       IN setMatrixFrom(i + 1, uint8(ShiftLeft(colmask, 1)), n, c1, digits, segments,
                        tr \o writeRegister(uint8(DIGITREGISTER(i)), c1[i]))
  ELSE Result(c, tr)

setMatrix(n, c, digits, segments) == setMatrixFrom(0, 1, n, c, digits, segments, <<>>)

\* setRows writing the register before storing into the cache
RECURSIVE setRowsFrom_WritesBeforeStore(_, _, _, _, _)
setRowsFrom_WritesBeforeStore(i, n, c, segments, tr) ==
  IF i < n
  THEN setRowsFrom_WritesBeforeStore(i + 1, n, [c EXCEPT ![i] = segments], segments,
                                     tr \o writeRegister(uint8(DIGITREGISTER(i)), c[i]))
  ELSE Result(c, tr)

\* MAX72::setRows
RECURSIVE setRowsFrom(_, _, _, _, _)
setRowsFrom(i, n, c, segments, tr) ==
  IF i < n
  THEN LET c1 == [c EXCEPT ![i] = segments]
       IN setRowsFrom(i + 1, n, c1, segments,
                      tr \o writeRegister(uint8(DIGITREGISTER(i)), c1[i]))
  ELSE Result(c, tr)

setRows(n, c, segments) == setRowsFrom(0, n, c, segments, <<>>)

\* setColumns leaving the digits not selected as they are, not clearing them
RECURSIVE setColumnsFrom_KeepsUnselected(_, _, _, _, _, _)
setColumnsFrom_KeepsUnselected(i, colmask, n, c, digits, tr) ==
  IF i < n
  THEN LET c1 == IF BitAnd(colmask, digits) # 0
                 THEN [c EXCEPT ![i] = 255]
                 ELSE c
       IN setColumnsFrom_KeepsUnselected(i + 1, uint8(ShiftLeft(colmask, 1)), n, c1, digits,
                                         tr \o writeRegister(uint8(DIGITREGISTER(i)), c1[i]))
  ELSE Result(c, tr)

\* MAX72::setColumns; colmask is a uint8_t
RECURSIVE setColumnsFrom(_, _, _, _, _, _)
setColumnsFrom(i, colmask, n, c, digits, tr) ==
  IF i < n
  THEN LET c1 == IF BitAnd(colmask, digits) # 0
                 THEN [c EXCEPT ![i] = 255]
                 ELSE [c EXCEPT ![i] = 0]
       IN setColumnsFrom(i + 1, uint8(ShiftLeft(colmask, 1)), n, c1, digits,
                         tr \o writeRegister(uint8(DIGITREGISTER(i)), c1[i]))
  ELSE Result(c, tr)

setColumns(n, c, digits) == setColumnsFrom(0, 1, n, c, digits, <<>>)

\* setPixel writing the register before storing into the cache
setPixel_WritesBeforeStore(n, c, digit, segment, state, u) ==
  IF ~ DigitGuard(digit, n)
  THEN Result(c, <<>>)
  ELSE LET old == IF digit < CacheSize THEN c[digit] ELSE u
           new == IF state
                  THEN uint8(BitOr(old, ShiftLeft(HIGH, segment)))
                  ELSE uint8(BitAnd(old, BitNot(ShiftLeft(HIGH, segment))))
           c1 == IF digit < CacheSize THEN [c EXCEPT ![digit] = new] ELSE c
       IN Result(c1, writeRegister(uint8(DIGITREGISTER(digit)), old))

\* setPixel clearing with `&= (HIGH << segment)`, the complement forgotten
setPixel_NoComplement(n, c, digit, segment, state, u) ==
  IF ~ DigitGuard(digit, n)
  THEN Result(c, <<>>)
  ELSE LET old == IF digit < CacheSize THEN c[digit] ELSE u
           new == IF state
                  THEN uint8(BitOr(old, ShiftLeft(HIGH, segment)))
                  ELSE uint8(BitAnd(old, ShiftLeft(HIGH, segment)))
           c1 == IF digit < CacheSize THEN [c EXCEPT ![digit] = new] ELSE c
       IN Result(c1, writeRegister(uint8(DIGITREGISTER(digit)), new))

\* MAX72::setPixel.  A digit of 8 or more indexes past _displayCache:
\* the byte read there is u and the cache is left alone.
setPixel(n, c, digit, segment, state, u) ==
  IF ~ DigitGuard(digit, n)
  THEN Result(c, <<>>)
  ELSE LET old == IF digit < CacheSize THEN c[digit] ELSE u
           new == IF state
                  THEN uint8(BitOr(old, ShiftLeft(HIGH, segment)))
                  ELSE uint8(BitAnd(old, BitNot(ShiftLeft(HIGH, segment))))
           c1 == IF digit < CacheSize THEN [c EXCEPT ![digit] = new] ELSE c
       IN Result(c1, writeRegister(uint8(DIGITREGISTER(digit)), new))

\* The constructor setting the scan limit to _numDigits, not _numDigits - 1
Constructor_ScanLimitIsCount(numdigits, c) ==
  LET cleared == dispClear(numdigits, c)
  IN Result(cleared.cache,
            << CsEvent(HIGH) >>
            \o writeRegister(SHUTDOWN, 0)
            \o cleared.trace
            \o writeRegister(SCANLIMIT, uint8(numdigits))
            \o writeRegister(DECODEMODE, 0)
            \o writeRegister(INTENSITY, 15)
            \o writeRegister(SHUTDOWN, 1))

\* MAX72::MAX72, from digitalWrite(_chipSelect, HIGH) on
Constructor(numdigits, c) ==
  LET cleared == dispClear(numdigits, c)
  IN Result(cleared.cache,
            << CsEvent(HIGH) >>
            \o writeRegister(SHUTDOWN, 0)
            \o cleared.trace
            \o writeRegister(SCANLIMIT, uint8(numdigits - 1))
            \o writeRegister(DECODEMODE, 0)
            \o writeRegister(INTENSITY, 15)
            \o writeRegister(SHUTDOWN, 1))

----------------------------------------------------------------------------
(* The state machine *)

RegisterAddrs == 0..15
\* held by a register that was never written: below every uint8_t
NoValue == 0 - 1

Op(name, a, b, c) == [name |-> name, a |-> a, b |-> b, c |-> c]

\* Before the constructor runs: the fields are not initialised (the cache
\* holds one of UndefBytes throughout, _numDigits is not read before it is
\* assigned), the pin floats at either level and no register was written.
Init ==
  /\ pc = "new"
  /\ numDigits = 0
  /\ \E u \in UndefBytes : displayCache = [i \in 0..(CacheSize - 1) |-> u]
  /\ chipSelect \in {LOW, HIGH}
  /\ pinMode = INPUT
  /\ spi = [begun |-> FALSE, clockDivider |-> 0, bitOrder |-> "", dataMode |-> ""]
  /\ regs = [a \in RegisterAddrs |-> NoValue]
  /\ trace = <<>>
  /\ lastOp = Op("none", 0, 0, 0)
  /\ prevCache = displayCache
  /\ prevRegs = regs
  /\ inRange = TRUE
  /\ pair = "none"
  /\ pairCache = displayCache
  /\ opsDone = 0

\* The two-call sequences that are followed: setPixel(d, s, true) then
\* setPixel(d, s, false), and dispClear() then dispRefresh()
PairOf(first, second) ==
  IF /\ first.name = "setPixel" /\ first.c = 1
     /\ second = Op("setPixel", first.a, first.b, 0)
  THEN "setThenClear"
  ELSE IF first.name = "dispClear" /\ second.name = "dispRefresh"
  THEN "clearThenRefresh"
  ELSE "none"

\* What every method does to the state, given its result
Run(op, res, ok) ==
  /\ prevCache' = displayCache
  /\ prevRegs' = regs
  /\ displayCache' = res.cache
  /\ trace' = res.trace
  /\ chipSelect' = PinAfter(chipSelect, res.trace)
  /\ regs' = Latch(regs, Writes(chipSelect, res.trace))
  /\ lastOp' = op
  /\ inRange' = (inRange /\ ok)
  /\ pair' = PairOf(lastOp, op)
  /\ pairCache' = IF pair' = "none" THEN displayCache ELSE prevCache

\* A call of a public method on the constructed object.  `defined` is
\* false when the call indexes past the object: what the program does after
\* such a call is not modelled.
Call(op, res, ok, defined) ==
  /\ pc = "ready"
  /\ opsDone < MaxOps
  /\ Run(op, res, ok)
  /\ opsDone' = opsDone + 1
  /\ pc' = IF defined THEN "ready" ELSE "undefined"
  /\ UNCHANGED <<numDigits, pinMode, spi>>

Construct ==
  \E numdigits \in NumDigitsArgs :
    /\ pc = "new"
    /\ pc' = "ready"
    /\ numDigits' = numdigits
    /\ pinMode' = OUTPUT
    /\ spi' = [begun |-> TRUE, clockDivider |-> CLOCK_DIVIDER,
               bitOrder |-> "MSBFIRST", dataMode |-> "SPI_MODE0"]
    /\ LET res == Constructor(numdigits, displayCache)
       IN Run(Op("MAX72", numdigits, 0, 0), res, TRUE)
    /\ UNCHANGED opsDone

DispClear ==
  LET res == dispClear(numDigits, displayCache)
  IN Call(Op("dispClear", 0, 0, 0), res, TRUE, TRUE)

DispAll ==
  LET res == dispAll(numDigits, displayCache)
  IN Call(Op("dispAll", 0, 0, 0), res, TRUE, TRUE)

DispRefresh ==
  LET res == dispRefresh(numDigits, displayCache)
  IN Call(Op("dispRefresh", 0, 0, 0), res, TRUE, TRUE)

SetIntensity ==
  \E intensity \in IntensityArgs :
    LET res == setIntensity(numDigits, displayCache, intensity)
    IN Call(Op("setIntensity", intensity, 0, 0), res, TRUE, TRUE)

SetDigit ==
  \E digit \in DigitArgs, segments \in ByteArgs :
    \E u \in (IF digit < CacheSize THEN {segments} ELSE UndefBytes \cup {segments}) :
      LET res == setDigit(numDigits, displayCache, digit, segments, u)
      IN Call(Op("setDigit", digit, segments, 0), res, digit < numDigits,
              Defined(digit, numDigits))

SetMatrix ==
  \E digits \in MaskArgs, segments \in ByteArgs :
    LET res == setMatrix(numDigits, displayCache, digits, segments)
    IN Call(Op("setMatrix", digits, segments, 0), res, TRUE, TRUE)

SetRows ==
  \E segments \in ByteArgs :
    LET res == setRows(numDigits, displayCache, segments)
    IN Call(Op("setRows", segments, 0, 0), res, TRUE, TRUE)

SetColumns ==
  \E digits \in MaskArgs :
    LET res == setColumns(numDigits, displayCache, digits)
    IN Call(Op("setColumns", digits, 0, 0), res, TRUE, TRUE)

SetPixel ==
  \E digit \in DigitArgs, segment \in SegmentArgs, state \in BOOLEAN :
    \E u \in (IF digit < CacheSize THEN {0} ELSE UndefBytes) :
      LET res == setPixel(numDigits, displayCache, digit, segment, state, u)
      IN Call(Op("setPixel", digit, segment, IF state THEN 1 ELSE 0), res,
              digit < numDigits /\ segment < 8, Defined(digit, numDigits))

Next ==
  \/ Construct
  \/ DispClear
  \/ DispAll
  \/ DispRefresh
  \/ SetIntensity
  \/ SetDigit
  \/ SetMatrix
  \/ SetRows
  \/ SetColumns
  \/ SetPixel

Spec == Init /\ [][Next]_vars

\* setMatrix called once on a display that dispAll has lit: with every
\* digit mask, and on 8 digits with every segment pattern too
SetMatrixAll ==
  /\ lastOp.name = "dispAll"
  /\ \E digits \in 0..255,
        segments \in (IF numDigits = CacheSize THEN 0..255 ELSE ByteArgs) :
       LET res == setMatrix(numDigits, displayCache, digits, segments)
       IN Call(Op("setMatrix", digits, segments, 0), res, TRUE, TRUE)

\* setColumns called once, with every digit mask, on a display that is
\* blank from construction or that dispAll has lit
SetColumnsAll ==
  /\ lastOp.name \in {"MAX72", "dispAll"}
  /\ \E digits \in 0..255 :
       LET res == setColumns(numDigits, displayCache, digits)
       IN Call(Op("setColumns", digits, 0, 0), res, TRUE, TRUE)

DispAllFirst == opsDone = 0 /\ DispAll

NextMatrix ==
  \/ Construct
  \/ DispAllFirst
  \/ SetMatrixAll
  \/ SetColumnsAll

SpecMatrix == Init /\ [][NextMatrix]_vars

----------------------------------------------------------------------------
(* Properties *)

\* Bit k of x
Bit(x, k) == (x \div 2^k) % 2

\* The register writes of the last method run
OpWrites == Writes(HIGH, trace)

\* One write per digit 0..n-1 in ascending order, digit i getting c[i]
DigitWrites(n, c) == [k \in 1..n |-> <<k, c[k - 1]>>]

\* C1: once constructed, and as long as every call had digit < numDigits and
\* segment < 8, each cache entry i < numDigits equals the value last written
\* on the bus to digit register i + 1.
C1_CacheMatchesRegisters ==
  (pc = "ready" /\ inRange) =>
    \A i \in 0..(numDigits - 1) : displayCache[i] = regs[DIGITREGISTER(i)]

C1_Witness ==
  /\ pc = "ready" /\ inRange /\ numDigits = 8
  /\ lastOp.name = "setPixel"
  /\ displayCache[7] = 129
  /\ regs[8] = 129

\* C2: after setDigit(i, v) with i < numDigits, cache entry i is v and the
\* last register write on the bus is (i + 1, v).
C2_SetDigitStoresAndWrites ==
  (lastOp.name = "setDigit" /\ lastOp.a < numDigits) =>
    /\ displayCache[lastOp.a] = lastOp.b
    /\ OpWrites # <<>>
    /\ OpWrites[Len(OpWrites)] = <<lastOp.a + 1, lastOp.b>>

\* C3, as stated: setPixel(d, s, true) followed by setPixel(d, s, false), with
\* d < numDigits and s < 8, leaves cache entry d as it was before the first
\* of the two calls.
C3_RoundTripAlways ==
  (pair = "setThenClear" /\ lastOp.a < numDigits /\ lastOp.b < 8) =>
    displayCache[lastOp.a] = pairCache[lastOp.a]

\* C3, amended: the same, when bit s of cache entry d was clear before the
\* first of the two calls.
C3_RoundTripWhenClear ==
  (/\ pair = "setThenClear" /\ lastOp.a < numDigits /\ lastOp.b < 8
   /\ Bit(pairCache[lastOp.a], lastOp.b) = 0) =>
    displayCache[lastOp.a] = pairCache[lastOp.a]

C3_Witness ==
  /\ pair = "setThenClear" /\ lastOp.a < numDigits /\ lastOp.b = 7
  /\ numDigits > 1
  /\ pairCache[lastOp.a] = 1
  /\ prevCache[lastOp.a] = 129
  /\ displayCache[lastOp.a] = 1

\* C4: after setMatrix(digitMask, segMask), for every i < numDigits, cache
\* entry i is segMask if bit i of digitMask is set and 0 otherwise, whatever
\* the cache held before.
C4_SetMatrixResult ==
  lastOp.name = "setMatrix" =>
    \A i \in 0..(numDigits - 1) :
      displayCache[i] = IF Bit(lastOp.a, i) = 1 THEN lastOp.b ELSE 0

C4_Witness ==
  /\ lastOp = Op("setMatrix", 90, 60, 0)
  /\ numDigits = 8
  /\ \A i \in 0..7 : prevCache[i] = 255
  /\ displayCache = [i \in 0..7 |-> IF i \in {1, 3, 4, 6} THEN 60 ELSE 0]

\* C5: setIntensity with a level above 15 emits no event on the chip-select
\* pin or the bus, and leaves every register and the cache as they were.
C5_IntensityOutOfRangeIgnored ==
  (lastOp.name = "setIntensity" /\ lastOp.a > 15) =>
    /\ trace = <<>>
    /\ chipSelect = HIGH
    /\ regs = prevRegs
    /\ displayCache = prevCache

C5_Witness ==
  /\ lastOp = Op("setIntensity", 16, 0, 0)
  /\ prevRegs[INTENSITY] = 0
  /\ regs[INTENSITY] = 0

\* C6: the constructor, called with digitCount, issues exactly the writes
\* (0xC, 0); (1, 0) .. (digitCount, 0); (0xB, digitCount - 1); (0x9, 0);
\* (0xA, 0xF); (0xC, 1), in this order, and the shutdown register holds 0
\* at every write after the first.
C6_ConstructionSequence ==
  lastOp.name = "MAX72" =>
    /\ OpWrites = << <<12, 0>> >>
                  \o [k \in 1..numDigits |-> <<k, 0>>]
                  \o << <<11, numDigits - 1>>, <<9, 0>>, <<10, 15>>, <<12, 1>> >>
    /\ \A k \in 2..Len(OpWrites) :
         Latch(prevRegs, SubSeq(OpWrites, 1, k - 1))[SHUTDOWN] = 0

C6_Witness ==
  /\ lastOp.name = "MAX72"
  /\ numDigits = 8
  /\ Len(OpWrites) = 13
  /\ regs[SCANLIMIT] = 7

\* Event k of the trace opens a frame: chip-select low, two words, high
Frame(k) ==
  /\ k + 3 <= Len(trace)
  /\ trace[k] = CsEvent(LOW)
  /\ trace[k + 1][1] = "spi"
  /\ trace[k + 2][1] = "spi"
  /\ trace[k + 3] = CsEvent(HIGH)

\* C7: a word is transferred only while chip-select is low; each low period
\* holds exactly two transfers, the register address then the value; and
\* chip-select is high once the constructor has set the pin up, except during
\* a register write.
C7_ChipSelectFraming ==
  /\ pc # "new" => chipSelect = HIGH
  /\ \A k \in 1..Len(trace) :
       /\ trace[k][1] = "spi" => PinBefore(HIGH, trace, k) = LOW
       /\ trace[k] = CsEvent(LOW) => Frame(k)
       /\ trace[k] = CsEvent(HIGH) =>
            \/ k = 1 /\ lastOp.name = "MAX72"
            \/ k > 3 /\ Frame(k - 3)
  /\ (lastOp.name = "setIntensity" /\ lastOp.a <= 15) =>
       trace = << CsEvent(LOW), SpiEvent(INTENSITY), SpiEvent(lastOp.a), CsEvent(HIGH) >>

C7_Witness ==
  /\ lastOp.name = "setMatrix"
  /\ numDigits = 8
  /\ Len(trace) = 32
  /\ chipSelect = HIGH
  /\ \A j \in 0..7 : Frame(4 * j + 1)

\* C8: dispRefresh leaves the cache as it was and issues exactly the writes
\* (i + 1, cache[i]) for i = 0 .. numDigits - 1 in ascending order; right
\* after dispClear these are numDigits writes of 0.
C8_RefreshRewritesCache ==
  /\ lastOp.name = "dispRefresh" =>
       /\ displayCache = prevCache
       /\ OpWrites = DigitWrites(numDigits, prevCache)
  /\ pair = "clearThenRefresh" =>
       OpWrites = [k \in 1..numDigits |-> <<k, 0>>]

C8_Witness ==
  /\ pair = "clearThenRefresh"
  /\ numDigits = 8
  /\ Len(OpWrites) = 8
  /\ \E i \in 0..7 : pairCache[i] # 0

\* C9: once the constructor has run, the shutdown register holds 1 and no
\* public method, whatever its arguments, writes to it.
C9_ShutdownWrittenOnlyByConstructor ==
  pc # "new" =>
    /\ regs[SHUTDOWN] = 1
    /\ lastOp.name # "MAX72" =>
         \A k \in 1..Len(OpWrites) : OpWrites[k][1] # SHUTDOWN

\* C10: setRows(m) leaves the cache and emits the events that
\* setMatrix(0xFF, m) does from the same state; on 8 digits setRows(1) leaves
\* the cache all 1 and issues the writes (1, 1) .. (8, 1) in this order.
C10_SetRowsIsSetMatrixAllDigits ==
  lastOp.name = "setRows" =>
    /\ LET m == setMatrix(numDigits, prevCache, 255, lastOp.a)
       IN displayCache = m.cache /\ trace = m.trace
    /\ (numDigits = 8 /\ lastOp.a = 1) =>
         /\ displayCache = [i \in 0..7 |-> 1]
         /\ OpWrites = [k \in 1..8 |-> <<k, 1>>]

C10_Witness ==
  /\ lastOp = Op("setRows", 1, 0, 0)
  /\ numDigits = 8
  /\ \A i \in 0..7 : prevCache[i] = 255
  /\ \A i \in 0..7 : displayCache[i] = 1

\* C11, as stated: after dispClear every one of the 8 cache entries is 0,
\* after dispAll every one is 0xFF, and each entry's value has been written
\* to its digit register.
C11_AllEightEntries ==
  /\ lastOp.name = "dispClear" =>
       \A i \in 0..(CacheSize - 1) :
         displayCache[i] = 0 /\ regs[DIGITREGISTER(i)] = 0
  /\ lastOp.name = "dispAll" =>
       \A i \in 0..(CacheSize - 1) :
         displayCache[i] = 255 /\ regs[DIGITREGISTER(i)] = 255

\* C11, amended: this holds of the first numDigits entries; the entries from
\* numDigits on keep their value and are not written.
C11_FirstNumDigitsEntries ==
  /\ lastOp.name = "dispClear" =>
       \A i \in 0..(numDigits - 1) :
         displayCache[i] = 0 /\ regs[DIGITREGISTER(i)] = 0
  /\ lastOp.name = "dispAll" =>
       \A i \in 0..(numDigits - 1) :
         displayCache[i] = 255 /\ regs[DIGITREGISTER(i)] = 255
  /\ lastOp.name \in {"dispClear", "dispAll"} =>
       \A i \in numDigits..(CacheSize - 1) :
         /\ displayCache[i] = prevCache[i]
         /\ regs[DIGITREGISTER(i)] = prevRegs[DIGITREGISTER(i)]

C11_Witness ==
  /\ lastOp.name = "dispClear"
  /\ numDigits = 5
  /\ \A i \in 0..4 : prevCache[i] = 255 /\ displayCache[i] = 0 /\ regs[i + 1] = 0
  /\ displayCache[7] = 1

\* C12: setPixel(d, s, state) with d < numDigits and s < 8 makes bit s of
\* cache entry d equal to state, leaves the other bits of that entry and
\* every other entry as they were, and issues exactly one register write,
\* (d + 1, new value of entry d).
C12_SetPixelChangesOneBit ==
  (lastOp.name = "setPixel" /\ lastOp.a < numDigits /\ lastOp.b < 8) =>
    /\ Bit(displayCache[lastOp.a], lastOp.b) = lastOp.c
    /\ \A k \in 0..7 :
         k # lastOp.b => Bit(displayCache[lastOp.a], k) = Bit(prevCache[lastOp.a], k)
    /\ \A i \in 0..(CacheSize - 1) :
         i # lastOp.a => displayCache[i] = prevCache[i]
    /\ OpWrites = << <<lastOp.a + 1, displayCache[lastOp.a]>> >>

C14_SetColumnsResult ==
  lastOp.name = "setColumns" =>
    /\ \A i \in 0..(numDigits - 1) :
         displayCache[i] = IF Bit(lastOp.a, i) = 1 THEN 255 ELSE 0
    /\ LET m == setMatrix(numDigits, prevCache, lastOp.a, 255)
       IN displayCache = m.cache /\ trace = m.trace

C14_Witness ==
  /\ lastOp = Op("setColumns", 90, 0, 0)
  /\ numDigits = 8
  /\ \A i \in 0..7 : prevCache[i] = 255
  /\ displayCache = [i \in 0..7 |-> IF i \in {1, 3, 4, 6} THEN 255 ELSE 0]
  /\ Len(OpWrites) = 8

\* The methods that rewrite the whole display
WholeDisplayOps ==
  {"dispClear", "dispAll", "dispRefresh", "setMatrix", "setRows", "setColumns"}

\* C15: each of dispClear, dispAll, dispRefresh, setMatrix, setRows and
\* setColumns issues, within the call, exactly numDigits register writes, to
\* addresses 1 .. numDigits in ascending order, each carrying that digit's
\* cache entry, whether or not the entry changed.
C15_WholeDisplayWritesEveryDigit ==
  lastOp.name \in WholeDisplayOps =>
    /\ OpWrites = DigitWrites(numDigits, displayCache)
    /\ Len(trace) = 4 * numDigits
    /\ chipSelect = HIGH

C15_Witness ==
  /\ lastOp.name = "dispAll"
  /\ numDigits = 8
  /\ \A i \in 0..7 : prevCache[i] = 255
  /\ displayCache = prevCache
  /\ regs = prevRegs
  /\ OpWrites = [k \in 1..8 |-> <<k, 255>>]

\* C16: once constructed, and as long as every call had digit < numDigits
\* and segment < 8, a public method writes only to the digit registers
\* 1 .. numDigits or to the intensity register; the scan-limit, decode-mode
\* and shutdown registers hold numDigits - 1, 0 and 1, and the display-test
\* register was never written.
C16_ConfigurationRegistersKept ==
  (pc = "ready" /\ inRange) =>
    /\ regs[SCANLIMIT] = numDigits - 1
    /\ regs[DECODEMODE] = 0
    /\ regs[SHUTDOWN] = 1
    /\ regs[DISPLAYTEST] = NoValue
    /\ lastOp.name # "MAX72" =>
         \A k \in 1..Len(OpWrites) :
           OpWrites[k][1] \in (1..numDigits) \cup {INTENSITY}

C16_Witness ==
  /\ pc = "ready" /\ inRange
  /\ numDigits = 8
  /\ lastOp = Op("setDigit", 7, 255, 0)
  /\ OpWrites = << <<8, 255>> >>
  /\ regs[INTENSITY] = 0
  /\ regs[SCANLIMIT] = 7 /\ regs[SHUTDOWN] = 1

\* C17: once constructed, and as long as no call indexed past the cache (so
\* whenever every digit argument was in range), the intensity register holds
\* a value in 0..15: 0xF from the constructor, the level after a setIntensity
\* with a level in 0..15, and after any other call the value it held before
\* the call.  By induction on the calls this is 0xF until the first
\* setIntensity with a level in 0..15 and the level of the most recent such
\* call from then on.
C17_IntensityRegister ==
  pc = "ready" =>
    LET accepted == lastOp.name = "setIntensity" /\ lastOp.a <= 15
    IN /\ regs[INTENSITY] \in 0..15
       /\ lastOp.name = "MAX72" => regs[INTENSITY] = 15
       /\ accepted => regs[INTENSITY] = lastOp.a
       /\ (lastOp.name # "MAX72" /\ ~ accepted) => regs[INTENSITY] = prevRegs[INTENSITY]

C17_Witness ==
  /\ pc = "ready" /\ inRange
  /\ lastOp.name = "dispAll"
  /\ opsDone >= 2
  /\ prevRegs[INTENSITY] = 0
  /\ regs[INTENSITY] = 0

\* C18: setPixel(d, s, state) with d < numDigits and s in 8..15 leaves every
\* cache entry as it was and still issues one register write, (d + 1,
\* cache[d]), of the unchanged value.
C18_OutOfRangeSegmentStillWrites ==
  (lastOp.name = "setPixel" /\ lastOp.a < numDigits /\ lastOp.b \in 8..15) =>
    /\ displayCache = prevCache
    /\ OpWrites = << <<lastOp.a + 1, displayCache[lastOp.a]>> >>

====
